---- MODULE Spec2Model ----
(***************************************************************************)
(* Job-lifecycle orchestration of img-to-uzdz: the API-side job creation   *)
(* and cancellation (api/main_v2.py), the credits ledger (api/credits.py), *)
(* the work queue (api/queue.py), the worker's pipeline driver             *)
(* (worker/worker_v2.py), the status relay and the webhook dispatcher      *)
(* (api/status_processor.py).                                              *)
(*                                                                         *)
(* Credits are Decimal values with two places (Numeric(10, 2)); the model  *)
(* counts them in hundredths, so 1.0 credit is 100 and 2.5 credits 250.    *)
(* A nullable column is <<>> when NULL and <<v>> when it holds v.          *)
(* Timestamps are values of a per-job logical clock: every utcnow() read   *)
(* for a job is later than the earlier reads for that job.                 *)
(***************************************************************************)
EXTENDS Integers, Sequences, FiniteSets, TLC

\* ---------------------------------------------------------------- bounds
MaxJobs == 1        \* jobs ever created
MaxDup == 1         \* status events the transport delivers a second time
MaxApiCalls == 1    \* direct CreditsManager.add_credits / debit_credits calls
MaxEnqueue == 2     \* calls of the enqueue_job helper
NumCallers == 2     \* processes that call JobQueue.dequeue_job
MaxStray == 1       \* status events that name a job the store does not hold
NumRelays == 2      \* processes that run StatusProcessor.process_status_updates

\* ------------------------------------------------------ program constants
CREDITS_FAST_JOB == 100
CREDITS_HIGH_JOB == 250
max_attempts == 3

Orgs == {"org1"}
NoOrg == "none"
Qualities == {"fast", "high"}
Formats == {"glb", "usdz"}
FormatChoices == {{"glb"}, {"glb", "usdz"}}
Amounts == {100, 1000}
GpuReadings == {0, 3}
JobIds == 1..MaxJobs

Null == <<>>
Some(v) == <<v>>
\* Python truthiness of a nullable Decimal: None and 0 are both false
Truthy(x) == x # Null /\ x[1] # 0

VARIABLES
    feature_usdz,    \* settings.FEATURE_USDZ / the worker's FEATURE_USDZ
    jobs,            \* the jobs table: a sequence indexed by job id
    job_outputs,     \* job_outputs rows: per job and format, the number of rows
    usage_events,    \* usage_events rows: per job, the number of rows
    ledger,          \* credits_ledger rows in insertion order
    webhook_events,  \* webhook_events rows in insertion order
    queue_standard,  \* redis list queue:standard (head = left end)
    job_updates,     \* redis list queue:job_updates (head = left end)
    queue_webhooks,  \* redis list queue:webhooks (head = left end)
    worker,          \* the worker process: where process_job stands
    api_result,      \* what the last CreditsManager call returned
    cost_writes,     \* history: per job, how often cost_credits was assigned
    submit_len,      \* history: per job, the ledger's length when it was submitted
    dups,            \* redeliveries so far
    api_calls,       \* direct calls of CreditsManager and of the queue helper so far
    queue_priority,  \* redis sorted set queue:standard:priority (score = priority)
    dequeuer,        \* per caller of dequeue_job: where the call stands
    received,        \* history: per caller, the descriptors dequeue_job returned
    enqueues,        \* calls of the enqueue_job helper so far
    dispatcher,      \* the webhook dispatcher: where _deliver_webhook stands
    webhook_retries, \* redis list queue:webhook_retries (head = left end)
    http_posts,      \* history: per WebhookEvent id, the HTTP requests issued
    relay_log,       \* what the relay's last iteration printed, and which it was
    strays,          \* events for unknown jobs so far
    scratch,         \* the job ids whose scratch directory /tmp/jobs/<id> exists
    worker_exit,     \* how the last process_job call was left
    canceler,        \* the DELETE /jobs/{job_id} handler: where cancel_job stands
    relays           \* per relay instance: the event it has popped and not applied yet

queue_vars == <<queue_priority, dequeuer, received, enqueues>>
dispatch_vars == <<dispatcher, webhook_retries, http_posts>>
process_vars == <<scratch, worker_exit>>

vars == <<feature_usdz, jobs, job_outputs, usage_events, ledger, webhook_events,
          queue_standard, job_updates, queue_webhooks, worker, api_result,
          cost_writes, submit_len, dups, api_calls, queue_vars, dispatch_vars,
          relay_log, strays, process_vars, canceler, relays, relays>>

\* ------------------------------------------------------------- redis lists
\* mutant: RPUSH, the element goes to the right end
LPush_right(q, x) == Append(q, x)

\* LPUSH puts the element at the left end
LPush(q, x) == <<x>> \o q
\* BRPOP takes the element at the right end
RHead(q) == q[Len(q)]
RPop(q) == SubSeq(q, 1, Len(q) - 1)

\* ---------------------------------------------------------- credits ledger
RECURSIVE SumDeltas(_)
SumDeltas(rows) ==
    IF rows = <<>> THEN 0 ELSE rows[1].delta + SumDeltas(Tail(rows))

OrgRows(l, org) == SelectSeq(l, LAMBDA r: r.org_id = org)

\* func.sum() is NULL over no rows; "result or Decimal('0')" turns that into 0
get_balance(l, org) ==
    LET rows == OrgRows(l, org)
        result == IF rows = <<>> THEN Null ELSE Some(SumDeltas(rows))
    IN IF Truthy(result) THEN result[1] ELSE 0

LedgerEntry(org, delta, reason, job_id) ==
    [org_id |-> org, delta |-> delta, reason |-> reason, job_id |-> job_id]

add_credits(l, org, amount, reason) ==
    Append(l, LedgerEntry(org, amount, reason, Null))

\* mutant: a balance equal to the amount is refused as well
debit_credits_ok_strict(l, org, amount) == get_balance(l, org) > amount

debit_credits_ok(l, org, amount) == ~(get_balance(l, org) < amount)

debit_credits(l, org, amount, reason, job_id) ==
    IF debit_credits_ok(l, org, amount)
    THEN Append(l, LedgerEntry(org, -amount, reason, job_id))
    ELSE l

\* ------------------------------------------------------------ cost of a job
estimate_job_cost(quality, target_formats, flag) ==
    LET credits == IF quality = "high" THEN CREDITS_HIGH_JOB ELSE CREDITS_FAST_JOB
    IN IF "usdz" \in target_formats /\ flag THEN (credits * 12) \div 10 ELSE credits

can_afford_job(l, org, quality, target_formats, flag) ==
    get_balance(l, org) >= estimate_job_cost(quality, target_formats, flag)

_calculate_job_cost(job) ==
    LET base_cost == IF job.quality = "fast" THEN CREDITS_FAST_JOB ELSE CREDITS_HIGH_JOB
    IN IF "usdz" \in job.target_formats THEN (base_cost * 12) \div 10 ELSE base_cost

\* ------------------------------------------------------------ status events
Terminal == {"completed", "failed", "canceled"}
ErrorText == "Job processing failed"

\* JobProcessor._update_job_status: an optional field is put into the event
\* only when its argument is truthy
StatusEvent(job_id, status, error_message, outputs, gpu_minutes) ==
    [job_id |-> job_id,
     status |-> status,
     keys |-> (IF error_message # Null THEN {"error_message"} ELSE {})
              \cup (IF outputs # {} THEN {"outputs"} ELSE {})
              \cup (IF gpu_minutes # 0 THEN {"gpu_minutes"} ELSE {}),
     error_message |-> error_message,
     outputs |-> outputs,
     gpu_minutes |-> gpu_minutes]

\* ---------------------------------------------------------- the status relay
MaxStamp(job) ==
    LET s == IF job.started_at = Null THEN 0 ELSE job.started_at[1]
        c == IF job.completed_at = Null THEN 0 ELSE job.completed_at[1]
    IN IF s > c THEN s ELSE c

utcnow(job) == MaxStamp(job) + 1

\* mutant: the status of a job that is already terminal is kept
ApplyStatus_keep_terminal(job, e) ==
    IF job.status \in Terminal
    THEN job
    ELSE LET j1 == [job EXCEPT !.status = e.status]
             j2 == IF e.status = "running" /\ job.started_at = Null
                   THEN [j1 EXCEPT !.started_at = Some(utcnow(job))] ELSE j1
         IN IF e.status \in Terminal
            THEN [j2 EXCEPT !.completed_at = Some(utcnow(job))] ELSE j2

\* status, timestamps and error message of the job after the event
ApplyStatus(job, e) ==
    LET j1 == [job EXCEPT !.status = e.status]
        j2 == IF e.status = "running" /\ job.started_at = Null
              THEN [j1 EXCEPT !.started_at = Some(utcnow(job))] ELSE j1
        j3 == IF e.status \in Terminal
              THEN [j2 EXCEPT !.completed_at = Some(utcnow(job))] ELSE j2
    IN IF "error_message" \in e.keys
       THEN [j3 EXCEPT !.error_message = e.error_message] ELSE j3

\* the JobOutput rows of the job after the event
AddOutputs(rows, e) ==
    IF "outputs" \in e.keys /\ e.status = "completed"
    THEN [f \in Formats |-> IF f \in e.outputs THEN rows[f] + 1 ELSE rows[f]]
    ELSE rows

\* the number of UsageEvent rows of the job after the event
AddUsage(n, e) == IF "gpu_minutes" \in e.keys THEN n + 1 ELSE n

\* whether the event makes the relay assign cost_credits
WritesCost(e) == "gpu_minutes" \in e.keys /\ e.status = "completed"

ApplyCost(job, e) ==
    IF WritesCost(e)
    THEN [job EXCEPT !.cost_credits = Some(_calculate_job_cost(job))]
    ELSE job

\* mutant: the charge is netted into the ledger's last entry instead of
\* being appended
_debit_credits_in_place(l, job_id, job) ==
    IF ~Truthy(job.cost_credits) \/ l = <<>> THEN l
    ELSE [l EXCEPT ![Len(l)].delta = @ - job.cost_credits[1]]

_debit_credits(l, job_id, job) ==
    IF ~Truthy(job.cost_credits) THEN l
    ELSE Append(l, LedgerEntry(job.org_id, -(job.cost_credits[1]), "job_charge",
                               Some(job_id)))

\* mutant: the refund is guarded like a debit and refused when the
\* organization's balance is not positive
_refund_credits_guarded(l, job_id, job) ==
    IF ~Truthy(job.estimate_credits) \/ get_balance(l, job.org_id) <= 0 THEN l
    ELSE Append(l, LedgerEntry(job.org_id, job.estimate_credits[1], "refund",
                               Some(job_id)))

_refund_credits(l, job_id, job) ==
    IF ~Truthy(job.estimate_credits) THEN l
    ELSE Append(l, LedgerEntry(job.org_id, job.estimate_credits[1], "refund",
                               Some(job_id)))

\* the ledger after the event; job is the job as the event has updated it
ApplyBilling(l, job_id, job, e) ==
    LET l1 == IF WritesCost(e) /\ job.org_id # NoOrg
              THEN _debit_credits(l, job_id, job) ELSE l
    IN IF e.status = "failed" /\ job.org_id # NoOrg /\ Truthy(job.estimate_credits)
       THEN _refund_credits(l1, job_id, job) ELSE l1

\* mutant: the payload is the snapshot taken when the job was submitted
_trigger_webhook_at_submit(rows, job_id, job) ==
    Append(rows, [job_id |-> job_id, type |-> "queued", status |-> "queued",
                  attempts |-> 0, delivered_at |-> Null])

\* the webhook_events rows after the event's webhook was triggered
_trigger_webhook(rows, job_id, job) ==
    Append(rows, [job_id |-> job_id, type |-> job.status, status |-> job.status,
                  attempts |-> 0, delivered_at |-> Null])

\* the processes started with run_status_processor
Relays == 1..NumRelays

\* What can go wrong in one iteration of the relay: nothing; the store raises
\* before or at db.commit(); inside _trigger_webhook the commit of the
\* WebhookEvent row raises; or the row is committed and the LPUSH raises
Faults == {"none", "store", "webhook_row", "webhook_push"}
WebhookFaults == {"webhook_row", "webhook_push"}

\* mutant: a failure of the webhook step undoes the transition as well
Persisted_unless_any_fault(fault, before, after) ==
    IF fault # "none" THEN before ELSE after

\* mutant: every write is stored as it is made, nothing is rolled back
Persisted_each_write(fault, before, after) == after

\* what the transaction of _process_single_update leaves in a table: the
\* except branch rolls everything back, otherwise db.commit() has stored it
Persisted(fault, before, after) == IF fault = "store" THEN before ELSE after

\* mutant: the event is put back for a later try
Discard_requeue(q, e) == LPush(q, e)

\* the list after the relay has met an event whose job is not stored, given
\* the list q as BRPOP left it
Discard(q, e) == q

\* the line the iteration printed last
RelayLine(fault) ==
    IF fault = "store" THEN "failed"
    ELSE IF fault \in WebhookFaults THEN "webhook_failed"
    ELSE "updated"

\* StatusProcessor._process_single_update for the event e that BRPOP has
\* returned, rest being the list without it: the transaction and, after its
\* commit, the webhook step
_process_single_update(e, rest, fault) ==
    /\ LET j == e.job_id
       IN IF j \notin 1..Len(jobs)
          THEN /\ fault \in {"none", "store"}
               /\ job_updates' = Discard(rest, e)
               /\ relay_log' = [line |-> IF fault = "store" THEN "failed"
                                         ELSE "not_found",
                                job_id |-> j, n |-> relay_log.n + 1]
               /\ UNCHANGED <<jobs, job_outputs, usage_events, ledger,
                              webhook_events, queue_webhooks, cost_writes>>
          ELSE LET job == ApplyCost(ApplyStatus(jobs[j], e), e)
               IN /\ fault \in WebhookFaults => job.webhook_url
                  /\ job_updates' = rest
                  /\ jobs' = Persisted(fault, jobs, [jobs EXCEPT ![j] = job])
                  /\ job_outputs' = Persisted(fault, job_outputs,
                        [job_outputs EXCEPT ![j] = AddOutputs(@, e)])
                  /\ usage_events' = Persisted(fault, usage_events,
                        [usage_events EXCEPT ![j] = AddUsage(@, e)])
                  /\ cost_writes' = Persisted(fault, cost_writes,
                        [cost_writes EXCEPT
                           ![j] = IF WritesCost(e) THEN @ + 1 ELSE @])
                  /\ ledger' = Persisted(fault, ledger,
                                         ApplyBilling(ledger, j, job, e))
                  /\ webhook_events' =
                        IF job.webhook_url /\ fault \in {"none", "webhook_push"}
                        THEN _trigger_webhook(webhook_events, j, job)
                        ELSE webhook_events
                  /\ queue_webhooks' =
                        IF job.webhook_url /\ fault = "none"
                        THEN LPush(queue_webhooks, Len(webhook_events) + 1)
                        ELSE queue_webhooks
                  /\ relay_log' = [line |-> RelayLine(fault), job_id |-> j,
                                   n |-> relay_log.n + 1]
    /\ UNCHANGED <<queue_vars, dispatch_vars, process_vars, canceler, strays, feature_usdz, queue_standard,
                   worker, api_result, submit_len, dups, api_calls>>

\* StatusProcessor.process_status_updates, one iteration of the only relay
\* process: BRPOP an event and apply it
ProcessStatusUpdate(fault) ==
    /\ job_updates # <<>>
    /\ _process_single_update(RHead(job_updates), RPop(job_updates), fault)
    /\ UNCHANGED relays

\* one of several relay processes: BRPOP hands the oldest event to the
\* process that called it
RelayPop(r) ==
    /\ relays[r] = Null
    /\ job_updates # <<>>
    /\ relays' = [relays EXCEPT ![r] = Some(RHead(job_updates))]
    /\ job_updates' = RPop(job_updates)
    /\ UNCHANGED <<queue_vars, dispatch_vars, process_vars, canceler, relay_log, strays, feature_usdz, jobs, job_outputs, usage_events, ledger,
                   webhook_events, queue_standard, queue_webhooks, worker, api_result,
                   cost_writes, submit_len, dups, api_calls>>

\* the relay process applies the event it holds, in its own session
RelayApply(r, fault) ==
    /\ relays[r] # Null
    /\ _process_single_update(relays[r][1], job_updates, fault)
    /\ relays' = [relays EXCEPT ![r] = Null]

\* The transport delivers at least once: an event that is in flight reaches
\* the relay a second time, after everything now in the list
DuplicateDelivery ==
    /\ dups < MaxDup
    /\ \E i \in 1..Len(job_updates) :
          job_updates' = LPush(job_updates, job_updates[i])
    /\ dups' = dups + 1
    /\ UNCHANGED <<queue_vars, dispatch_vars, process_vars, canceler, relays, relay_log, strays, feature_usdz, jobs, job_outputs, usage_events, ledger,
                   webhook_events, queue_standard, queue_webhooks, worker,
                   api_result, cost_writes, submit_len, api_calls>>

\* ------------------------------------------------------------------ the API
NewJob(org, quality, target_formats, estimate, webhook_url) ==
    [org_id |-> org, status |-> "queued", quality |-> quality,
     target_formats |-> target_formats, estimate_credits |-> estimate,
     cost_credits |-> Null, started_at |-> Null, completed_at |-> Null,
     error_message |-> Null, webhook_url |-> webhook_url]

\* JobQueue.enqueue_job with priority 0: the descriptor goes to the list; when
\* the call fails it returns False and nothing is queued
enqueue_job(q, job_id, job, ok) ==
    IF ok
    THEN LPush(q, [job_id |-> job_id, target_formats |-> job.target_formats])
    ELSE q

\* POST /jobs for an organization
create_job(org, quality, target_formats, webhook_url, enqueue_ok) ==
    /\ Len(jobs) < MaxJobs
    /\ can_afford_job(ledger, org, quality, target_formats, feature_usdz)
    /\ LET job == NewJob(org, quality, target_formats,
                         Some(estimate_job_cost(quality, target_formats, feature_usdz)),
                         webhook_url)
           job_id == Len(jobs) + 1
       IN /\ jobs' = Append(jobs, job)
          /\ submit_len' = [submit_len EXCEPT ![job_id] = Len(ledger)]
          /\ queue_standard' = enqueue_job(queue_standard, job_id, job, enqueue_ok)
    /\ UNCHANGED <<queue_vars, dispatch_vars, process_vars, canceler, relays, relay_log, strays, feature_usdz, job_outputs, usage_events, ledger, webhook_events,
                   job_updates, queue_webhooks, worker, api_result, cost_writes,
                   dups, api_calls>>

\* a paid Studio preview becomes a job that no organization owns
create_studio_job_from_preview(enqueue_ok) ==
    /\ Len(jobs) < MaxJobs
    /\ LET job == NewJob(NoOrg, "fast",
                         IF feature_usdz THEN {"glb", "usdz"} ELSE {"glb"},
                         Some(0), FALSE)
           job_id == Len(jobs) + 1
       IN /\ jobs' = Append(jobs, job)
          /\ submit_len' = [submit_len EXCEPT ![job_id] = Len(ledger)]
          /\ queue_standard' = enqueue_job(queue_standard, job_id, job, enqueue_ok)
    /\ UNCHANGED <<queue_vars, dispatch_vars, process_vars, canceler, relays, relay_log, strays, feature_usdz, job_outputs, usage_events, ledger, webhook_events,
                   job_updates, queue_webhooks, worker, api_result, cost_writes,
                   dups, api_calls>>

\* DELETE /jobs/{job_id}
cancel_job(job_id) ==
    /\ job_id \in 1..Len(jobs)
    /\ jobs[job_id].status \in {"queued", "running"}
    /\ jobs' = [jobs EXCEPT ![job_id].status = "canceled"]
    /\ UNCHANGED <<queue_vars, dispatch_vars, process_vars, canceler, relays, relay_log, strays, feature_usdz, job_outputs, usage_events, ledger, webhook_events,
                   queue_standard, job_updates, queue_webhooks, worker, api_result,
                   cost_writes, submit_len, dups, api_calls>>

\* cancel_job up to its status check: the handler reads the job row and
\* refuses with 400 unless the status it read is queued or running
cancel_job_check(job_id) ==
    /\ canceler.pc # "checked"
    /\ job_id \in 1..Len(jobs)
    /\ canceler' = [pc |-> IF jobs[job_id].status \in {"queued", "running"}
                           THEN "checked" ELSE "refused",
                    job_id |-> job_id]
    /\ UNCHANGED <<queue_vars, dispatch_vars, process_vars, relays, relay_log, strays, feature_usdz, jobs, job_outputs, usage_events, ledger,
                   webhook_events, queue_standard, job_updates, queue_webhooks, worker,
                   api_result, cost_writes, submit_len, dups, api_calls>>

\* cancel_job from the assignment on: the handler's session writes
\* status = canceled to the row it read and commits; replaced is the status
\* the commit has overwritten
cancel_job_commit ==
    /\ canceler.pc = "checked"
    /\ jobs' = [jobs EXCEPT ![canceler.job_id].status = "canceled"]
    /\ canceler' = [pc |-> "canceled", job_id |-> canceler.job_id,
                    replaced |-> jobs[canceler.job_id].status]
    /\ UNCHANGED <<queue_vars, dispatch_vars, process_vars, relays, relay_log, strays, feature_usdz, job_outputs, usage_events, ledger,
                   webhook_events, queue_standard, job_updates, queue_webhooks, worker,
                   api_result, cost_writes, submit_len, dups, api_calls>>

\* CreditsManager.add_credits called directly (a purchase)
AddCredits(org, amount) ==
    /\ api_calls < MaxApiCalls
    /\ ledger' = add_credits(ledger, org, amount, "purchase")
    /\ api_result' = [op |-> "add_credits", org |-> org, amount |-> amount, ok |-> TRUE]
    /\ api_calls' = api_calls + 1
    /\ UNCHANGED <<queue_vars, dispatch_vars, process_vars, canceler, relays, relay_log, strays, feature_usdz, jobs, job_outputs, usage_events, webhook_events,
                   queue_standard, job_updates, queue_webhooks, worker, cost_writes,
                   submit_len, dups>>

\* CreditsManager.debit_credits called directly
DebitCredits(org, amount) ==
    /\ api_calls < MaxApiCalls
    /\ ledger' = debit_credits(ledger, org, amount, "manual", Null)
    /\ api_result' = [op |-> "debit_credits", org |-> org, amount |-> amount,
                      ok |-> debit_credits_ok(ledger, org, amount)]
    /\ api_calls' = api_calls + 1
    /\ UNCHANGED <<queue_vars, dispatch_vars, process_vars, canceler, relays, relay_log, strays, feature_usdz, jobs, job_outputs, usage_events, webhook_events,
                   queue_standard, job_updates, queue_webhooks, worker, cost_writes,
                   submit_len, dups>>

\* --------------------------------------------------------------- the worker
Idle == [pc |-> "idle", job_id |-> 0, target_formats |-> {}]

Emit(e) == job_updates' = LPush(job_updates, e)

\* how a call of process_job can begin: "report" is _update_job_status
\* raising on the running report, "mkdir" is the NerfstudioPipeline
\* constructor raising on a sub-directory after work_dir was made; both
\* happen before the try statement is entered
StartFaults == {"none", "report", "mkdir"}

\* NerfstudioPipeline.cleanup: rmtree of the scratch directory; an error of
\* rmtree is printed and swallowed, and the directory stays
cleanup(dirs, job_id, rmtree_ok) ==
    IF rmtree_ok THEN dirs \ {job_id} ELSE dirs

\* JobProcessor.run takes a descriptor; process_job reports running and
\* builds the pipeline, which makes the scratch directory
WorkerStart(fault) ==
    /\ worker.pc = "idle"
    /\ queue_standard # <<>>
    /\ LET d == RHead(queue_standard)
       IN /\ queue_standard' = RPop(queue_standard)
          /\ IF fault = "report"
             THEN UNCHANGED job_updates
             ELSE Emit(StatusEvent(d.job_id, "running", Null, {}, 0))
          /\ scratch' = IF fault = "report" THEN scratch ELSE scratch \cup {d.job_id}
          /\ worker' = IF fault = "none"
                       THEN [pc |-> "stages", job_id |-> d.job_id,
                             target_formats |-> d.target_formats]
                       ELSE Idle
          /\ worker_exit' = IF fault = "none" THEN worker_exit ELSE "raised"
    /\ UNCHANGED <<queue_vars, dispatch_vars, canceler, relays, relay_log, strays, feature_usdz, jobs, job_outputs, usage_events, ledger,
                   webhook_events, queue_webhooks, api_result, cost_writes,
                   submit_len, dups, api_calls>>

\* what process_job leaves alone once it runs
WorkerFrame ==
    UNCHANGED <<queue_vars, dispatch_vars, canceler, relays, relay_log, strays, feature_usdz, jobs, job_outputs, usage_events, ledger,
                webhook_events, queue_standard, queue_webhooks, api_result,
                cost_writes, submit_len, dups, api_calls>>

\* mutant: the failure is reported without its message
Except_no_message(failed_ok, rmtree_ok) ==
    /\ IF failed_ok
       THEN Emit(StatusEvent(worker.job_id, "failed", Null, {}, 0))
       ELSE UNCHANGED job_updates
    /\ worker_exit' = IF failed_ok THEN "false" ELSE "raised"
    /\ scratch' = cleanup(scratch, worker.job_id, rmtree_ok)
    /\ worker' = Idle

\* the except branch reports failed and returns False, the finally branch
\* cleans up; when the report itself raises, the exception leaves process_job
Except(failed_ok, rmtree_ok) ==
    /\ IF failed_ok
       THEN Emit(StatusEvent(worker.job_id, "failed", Some(ErrorText), {}, 0))
       ELSE UNCHANGED job_updates
    /\ worker_exit' = IF failed_ok THEN "false" ELSE "raised"
    /\ scratch' = cleanup(scratch, worker.job_id, rmtree_ok)
    /\ worker' = Idle

\* the try branch reports exporting once stages 1 to 4 are through
ReportExporting ==
    /\ Emit(StatusEvent(worker.job_id, "exporting", Null, {}, 0))
    /\ worker' = [worker EXCEPT !.pc = "export"]
    /\ UNCHANGED process_vars

\* download, validate, process_data or train_model fails (stages 1 to 4 taken
\* as one step)
WorkerStagesFail ==
    /\ worker.pc = "stages"
    /\ Except(TRUE, TRUE)
    /\ WorkerFrame

\* stages 1 to 4 succeed (taken as one step): process_job reports exporting
WorkerStagesOk ==
    /\ worker.pc = "stages"
    /\ ReportExporting
    /\ WorkerFrame

\* the formats export_models attempts: usdz only with the feature enabled
Exportable(target_formats, flag) ==
    {f \in target_formats : f = "glb" \/ (f = "usdz" /\ flag)}

\* mutant: completed only when every format was uploaded
FinalEvent_every_format(job_id, s3_outputs, gpu_minutes) ==
    IF s3_outputs # Formats
    THEN StatusEvent(job_id, "failed", Some(ErrorText), {}, 0)
    ELSE StatusEvent(job_id, "completed", Null, s3_outputs, gpu_minutes)

\* the terminal event of process_job after export and upload
FinalEvent(job_id, s3_outputs, gpu_minutes) ==
    IF s3_outputs = {}
    THEN StatusEvent(job_id, "failed", Some(ErrorText), {}, 0)
    ELSE StatusEvent(job_id, "completed", Null, s3_outputs, gpu_minutes)

\* export and upload: every format may fail on its own; gpu_minutes is read
\* from the training metadata (0 when the reading is missing or zero)
WorkerExport ==
    /\ worker.pc = "export"
    /\ \E outputs \in SUBSET Exportable(worker.target_formats, feature_usdz) :
       \E s3_outputs \in SUBSET outputs :
       \E gpu_minutes \in GpuReadings :
          /\ Emit(FinalEvent(worker.job_id, s3_outputs, gpu_minutes))
          /\ worker_exit' = IF s3_outputs = {} THEN "false" ELSE "true"
    /\ scratch' = cleanup(scratch, worker.job_id, TRUE)
    /\ worker' = Idle
    /\ WorkerFrame

\* process_job stage by stage: "stages" stands before download_images, then
\* validate_images, process_data and train_model follow in this order
StagePcs == {"stages", "validate", "process_data", "train"}

NextStage(pc) ==
    CASE pc = "stages" -> "validate"
      [] pc = "validate" -> "process_data"
      [] pc = "process_data" -> "train"

\* mutant: exporting is reported as soon as a stage has passed
WorkerStageOk_reporting ==
    /\ worker.pc \in StagePcs \ {"train"}
    /\ worker' = [worker EXCEPT !.pc = NextStage(@)]
    /\ Emit(StatusEvent(worker.job_id, "exporting", Null, {}, 0))
    /\ UNCHANGED process_vars
    /\ WorkerFrame

\* one of download_images, validate_images, process_data succeeds
WorkerStageOk ==
    /\ worker.pc \in StagePcs \ {"train"}
    /\ worker' = [worker EXCEPT !.pc = NextStage(@)]
    /\ UNCHANGED <<job_updates, process_vars>>
    /\ WorkerFrame

\* the stage at hand fails: process_job raises into its except branch
WorkerStageFail(failed_ok, rmtree_ok) ==
    /\ worker.pc \in StagePcs
    /\ Except(failed_ok, rmtree_ok)
    /\ WorkerFrame

\* train_model succeeds; the exporting report is made inside the try branch
WorkerTrainOk(exporting_ok, failed_ok, rmtree_ok) ==
    /\ worker.pc = "train"
    /\ IF exporting_ok THEN ReportExporting ELSE Except(failed_ok, rmtree_ok)
    /\ WorkerFrame

\* export_models and the upload loop: s3_outputs are the formats both
\* exported and uploaded; gpu_minutes is what the training metadata holds
WorkerUpload ==
    /\ worker.pc = "export"
    /\ \E outputs \in SUBSET Exportable(worker.target_formats, feature_usdz) :
       \E s3_outputs \in SUBSET outputs :
       \E gpu_minutes \in GpuReadings :
          worker' = [pc |-> "uploaded", job_id |-> worker.job_id,
                     target_formats |-> worker.target_formats,
                     s3_outputs |-> s3_outputs, gpu_minutes |-> gpu_minutes]
    /\ UNCHANGED <<job_updates, process_vars>>
    /\ WorkerFrame

\* the end of the try branch: nothing uploaded raises, otherwise completed
\* is reported and True returned; a completed report that raises is caught
\* by the except branch as well
WorkerFinalize(completed_ok, failed_ok, rmtree_ok) ==
    /\ worker.pc = "uploaded"
    /\ LET e == FinalEvent(worker.job_id, worker.s3_outputs, worker.gpu_minutes)
       IN IF e.status = "completed" /\ completed_ok
          THEN /\ Emit(e)
               /\ worker_exit' = "true"
               /\ scratch' = cleanup(scratch, worker.job_id, rmtree_ok)
               /\ worker' = Idle
          ELSE Except(failed_ok, rmtree_ok)
    /\ WorkerFrame

\* a status event for a job id the jobs table does not hold (the job was
\* deleted, or the id never existed)
UnknownJob == MaxJobs + 1

StrayEvent(e) ==
    /\ strays < MaxStray
    /\ e.job_id = UnknownJob
    /\ job_updates' = LPush(job_updates, e)
    /\ strays' = strays + 1
    /\ UNCHANGED <<queue_vars, dispatch_vars, process_vars, canceler, relays, relay_log, feature_usdz, jobs,
                   job_outputs, usage_events, ledger, webhook_events,
                   queue_standard, queue_webhooks, worker, api_result,
                   cost_writes, submit_len, dups, api_calls>>

\* ----------------------------------------------------------- the work queue
Priorities == {0, 1, 5}
Callers == 1..NumCallers

\* the payload enqueue_job builds; queued_at tells two payloads of a job apart
Descriptor(job_id, job, queued_at, priority) ==
    [job_id |-> job_id, target_formats |-> job.target_formats,
     queued_at |-> queued_at, priority |-> priority]

\* the enqueue_job helper: a positive priority goes to the sorted set, priority
\* 0 to the list; False (and nothing queued) when the job is unknown or the
\* call raises
EnqueueJob(job_id, priority, ok) ==
    /\ enqueues < MaxEnqueue
    /\ enqueues' = enqueues + 1
    /\ IF job_id \in 1..Len(jobs) /\ ok
       THEN LET d == Descriptor(job_id, jobs[job_id], enqueues + 1, priority)
            IN IF priority > 0
               THEN /\ queue_priority' = queue_priority \cup {d}
                    /\ UNCHANGED queue_standard
               ELSE /\ queue_standard' = LPush(queue_standard, d)
                    /\ UNCHANGED queue_priority
       ELSE UNCHANGED <<queue_priority, queue_standard>>
    /\ UNCHANGED <<dequeuer, received, dispatch_vars, process_vars, canceler, relays, relay_log, strays,
                   feature_usdz, jobs, job_outputs, usage_events, ledger,
                   webhook_events, job_updates, queue_webhooks, worker,
                   api_result, cost_writes, submit_len, dups, api_calls>>

\* mutant: ZRANGE key 0 0, the member of the lowest score
zrange_first(z) == {x \in z : \A y \in z : x.priority <= y.priority}

\* ZREVRANGE key 0 0: the member of the highest score; among members of the
\* same score redis takes the greatest in byte order, here any of them
zrevrange_first(z) == {x \in z : \A y \in z : y.priority <= x.priority}

Waiting == [pc |-> "idle", item |-> Null]

\* dequeue_job, first command: look at the priority set
DequeueRead(c) ==
    /\ dequeuer[c].pc = "idle"
    /\ IF queue_priority # {}
       THEN \E x \in zrevrange_first(queue_priority) :
               dequeuer' = [dequeuer EXCEPT ![c] = [pc |-> "zrem", item |-> Some(x)]]
       ELSE dequeuer' = [dequeuer EXCEPT ![c] = [pc |-> "brpop", item |-> Null]]
    /\ UNCHANGED <<queue_priority, received, enqueues, dispatch_vars, process_vars, canceler, relays, relay_log,
                   strays, feature_usdz, jobs, job_outputs, usage_events, ledger,
                   webhook_events, queue_standard, job_updates, queue_webhooks,
                   worker, api_result, cost_writes, submit_len, dups, api_calls>>

\* dequeue_job, priority branch: ZREM the member that was read and return it
\* (the reply of ZREM is not looked at); None when the command raises
DequeueRemove(c, ok) ==
    /\ dequeuer[c].pc = "zrem"
    /\ dequeuer' = [dequeuer EXCEPT ![c] = Waiting]
    /\ IF ok
       THEN /\ queue_priority' = queue_priority \ {dequeuer[c].item[1]}
            /\ received' = [received EXCEPT ![c] = @ \cup {dequeuer[c].item[1]}]
       ELSE UNCHANGED <<queue_priority, received>>
    /\ UNCHANGED <<enqueues, dispatch_vars, process_vars, canceler, relays, relay_log, strays, feature_usdz, jobs,
                   job_outputs, usage_events, ledger, webhook_events,
                   queue_standard, job_updates, queue_webhooks, worker,
                   api_result, cost_writes, submit_len, dups, api_calls>>

\* dequeue_job, FIFO branch: BRPOP the list; None on timeout or when the
\* command raises
DequeuePop(c, ok) ==
    /\ dequeuer[c].pc = "brpop"
    /\ dequeuer' = [dequeuer EXCEPT ![c] = Waiting]
    /\ IF ok /\ queue_standard # <<>>
       THEN /\ queue_standard' = RPop(queue_standard)
            /\ received' = [received EXCEPT ![c] = @ \cup {RHead(queue_standard)}]
       ELSE UNCHANGED <<queue_standard, received>>
    /\ UNCHANGED <<queue_priority, enqueues, dispatch_vars, process_vars, canceler, relays, relay_log, strays,
                   feature_usdz, jobs, job_outputs, usage_events, ledger,
                   webhook_events, job_updates, queue_webhooks, worker,
                   api_result, cost_writes, submit_len, dups, api_calls>>

\* JobQueue._enqueue_webhook: the WebhookEvent is added to the session but
\* neither flushed nor committed when the command is built, so its id is
\* still None (0 here, the id of no row); the caller closes the session
\* without a commit and the row is never stored
_enqueue_webhook(q, job) ==
    IF job.webhook_url THEN LPush(q, 0) ELSE q

\* JobQueue.update_job_status, the helper of queue.py, called with the fields
\* of the event e: db_ok is whether the job was loaded, push_ok whether the
\* LPUSH of the webhook command went through
update_job_status(e, db_ok, push_ok) ==
    /\ api_calls < MaxApiCalls
    /\ api_calls' = api_calls + 1
    /\ IF db_ok /\ e.job_id \in 1..Len(jobs)
       THEN LET job == ApplyStatus(jobs[e.job_id], e)
            IN /\ jobs' = [jobs EXCEPT ![e.job_id] = job]
               /\ job_outputs' = [job_outputs EXCEPT ![e.job_id] = AddOutputs(@, e)]
               /\ usage_events' = [usage_events EXCEPT ![e.job_id] = AddUsage(@, e)]
               /\ queue_webhooks' = IF push_ok THEN _enqueue_webhook(queue_webhooks, job)
                                    ELSE queue_webhooks
               /\ api_result' = [op |-> "update_job_status", org |-> NoOrg, amount |-> 0,
                                 ok |-> push_ok \/ ~job.webhook_url]
       ELSE /\ api_result' = [op |-> "update_job_status", org |-> NoOrg, amount |-> 0,
                              ok |-> FALSE]
            /\ UNCHANGED <<jobs, job_outputs, usage_events, queue_webhooks>>
    /\ UNCHANGED <<queue_vars, dispatch_vars, process_vars, canceler, relays, relay_log, strays, feature_usdz, ledger,
                   webhook_events, queue_standard, job_updates, worker, cost_writes,
                   submit_len, dups>>

\* ------------------------------------------------- the webhook dispatcher
\* what requests.post comes back with: a response, or a RequestException
Responses ==
    {[kind |-> "http", status_code |-> code] : code \in {200, 204, 500}}
       \cup {[kind |-> "error", status_code |-> 0]}
Failing == {r \in Responses : r.kind = "error" \/ r.status_code \notin 200..299}

Resting == [pc |-> "idle", event_id |-> 0, attempts |-> 0, response |-> Null]

Posts(e) == IF e \in DOMAIN http_posts THEN http_posts[e] ELSE 0

\* _deliver_webhook: the response that counts as delivered
delivered(response) == response.kind = "http" /\ response.status_code = 200

\* mutant: a retry while attempts has not passed max_attempts
retry_wanted_inclusive(attempts) == attempts <= max_attempts

\* _handle_failed_delivery: a retry while attempts is below max_attempts
retry_wanted(attempts) == attempts < max_attempts

Min(a, b) == IF a < b THEN a ELSE b

\* mutant: the exponent is attempts, not attempts - 1
backoff_delay_from_attempts(attempts) == Min(300, 60 * (2 ^ attempts))

\* _handle_failed_delivery: the seconds until the retry, attempts counting
\* the delivery that has just failed
backoff_delay(attempts) == Min(300, 60 * (2 ^ (attempts - 1)))

\* process_webhooks takes a command; _deliver_webhook loads the row, adds 1
\* to attempts in its session and issues the request
DeliverStart ==
    /\ dispatcher.pc = "idle"
    /\ queue_webhooks # <<>>
    /\ LET e == RHead(queue_webhooks)
       IN /\ queue_webhooks' = RPop(queue_webhooks)
          /\ IF e \notin 1..Len(webhook_events)
             THEN UNCHANGED <<dispatcher, http_posts>>
             ELSE /\ dispatcher' = [pc |-> "posting", event_id |-> e,
                                    attempts |-> webhook_events[e].attempts + 1,
                                    response |-> Null]
                  /\ http_posts' = [x \in DOMAIN http_posts \cup {e} |->
                                      IF x = e THEN Posts(e) + 1 ELSE http_posts[x]]
    /\ UNCHANGED <<queue_vars, webhook_retries, process_vars, canceler, relays, relay_log, strays, feature_usdz,
                   jobs, job_outputs, usage_events, ledger, webhook_events,
                   queue_standard, job_updates, worker, api_result, cost_writes,
                   submit_len, dups, api_calls>>

\* the subscriber answers, or the request fails in transport
HttpResponse(r) ==
    /\ dispatcher.pc = "posting"
    /\ dispatcher' = [dispatcher EXCEPT !.pc = "responded", !.response = Some(r)]
    /\ UNCHANGED <<queue_vars, webhook_retries, http_posts, process_vars, canceler, relays, relay_log, strays,
                   feature_usdz, jobs, job_outputs, usage_events, ledger,
                   webhook_events, queue_standard, job_updates, queue_webhooks,
                   worker, api_result, cost_writes, submit_len, dups, api_calls>>

\* the retry list after _handle_failed_delivery for an event whose session
\* holds attempts
_handle_failed_delivery(q, e, attempts) ==
    IF retry_wanted(attempts)
    THEN LPush(q, [event_id |-> e, delay |-> backoff_delay(attempts)])
    ELSE q

\* _deliver_webhook after requests.post has returned or raised
DeliverFinish ==
    /\ dispatcher.pc = "responded"
    /\ LET e == dispatcher.event_id
           r == dispatcher.response[1]
       IN IF delivered(r)
          THEN /\ webhook_events' =
                     [webhook_events EXCEPT ![e].attempts = dispatcher.attempts,
                                            ![e].delivered_at = Some(Posts(e))]
               /\ UNCHANGED webhook_retries
          ELSE /\ webhook_events' =
                     [webhook_events EXCEPT ![e].attempts = dispatcher.attempts]
               /\ webhook_retries' =
                     _handle_failed_delivery(webhook_retries, e, dispatcher.attempts)
    /\ dispatcher' = Resting
    /\ UNCHANGED <<queue_vars, http_posts, process_vars, canceler, relays, relay_log, strays, feature_usdz, jobs,
                   job_outputs, usage_events, ledger, queue_standard, job_updates,
                   queue_webhooks, worker, api_result, cost_writes, submit_len,
                   dups, api_calls>>

\* the dispatcher dies, or _deliver_webhook raises something that is not a
\* RequestException, while the request is out: the session is closed without
\* a commit
DispatcherCrash ==
    /\ dispatcher.pc = "posting"
    /\ dispatcher' = Resting
    /\ UNCHANGED <<queue_vars, webhook_retries, http_posts, process_vars, canceler, relays, relay_log, strays,
                   feature_usdz, jobs, job_outputs, usage_events, ledger,
                   webhook_events, queue_standard, job_updates, queue_webhooks,
                   worker, api_result, cost_writes, submit_len, dups, api_calls>>

\* a retry command whose retry_after has passed is handed to the dispatcher
RetryDue ==
    /\ webhook_retries # <<>>
    /\ queue_webhooks' = LPush(queue_webhooks, RHead(webhook_retries).event_id)
    /\ webhook_retries' = RPop(webhook_retries)
    /\ UNCHANGED <<queue_vars, dispatcher, http_posts, process_vars, canceler, relays, relay_log, strays,
                   feature_usdz, jobs, job_outputs, usage_events, ledger,
                   webhook_events, queue_standard, job_updates, worker,
                   api_result, cost_writes, submit_len, dups, api_calls>>

\* ------------------------------------------------------------ specification
NoCall == [op |-> "none", org |-> NoOrg, amount |-> 0, ok |-> TRUE]
NoLine == [line |-> "none", job_id |-> 0, n |-> 0]
NoRequest == [pc |-> "none", job_id |-> 0]

Init ==
    /\ feature_usdz \in BOOLEAN
    /\ jobs = <<>>
    /\ job_outputs = [j \in JobIds |-> [f \in Formats |-> 0]]
    /\ usage_events = [j \in JobIds |-> 0]
    /\ ledger \in {<<>>} \cup {add_credits(<<>>, org, amount, "purchase") :
                                 org \in Orgs, amount \in Amounts}
    /\ webhook_events = <<>>
    /\ queue_standard = <<>>
    /\ job_updates = <<>>
    /\ queue_webhooks = <<>>
    /\ worker = Idle
    /\ api_result = NoCall
    /\ cost_writes = [j \in JobIds |-> 0]
    /\ submit_len = [j \in JobIds |-> 0]
    /\ dups = 0
    /\ api_calls = 0
    /\ queue_priority = {}
    /\ dequeuer = [c \in Callers |-> Waiting]
    /\ received = [c \in Callers |-> {}]
    /\ enqueues = 0
    /\ dispatcher = Resting
    /\ webhook_retries = <<>>
    /\ http_posts = [e \in {} |-> 0]
    /\ relay_log = NoLine
    /\ strays = 0
    /\ scratch = {}
    /\ worker_exit = "none"
    /\ canceler = NoRequest
    /\ relays = [r \in Relays |-> Null]

Next ==
    \/ \E org \in Orgs, quality \in Qualities, target_formats \in FormatChoices,
          webhook_url \in BOOLEAN, enqueue_ok \in BOOLEAN :
          create_job(org, quality, target_formats, webhook_url, enqueue_ok)
    \/ \E enqueue_ok \in BOOLEAN : create_studio_job_from_preview(enqueue_ok)
    \/ \E job_id \in JobIds : cancel_job(job_id)
    \/ \E org \in Orgs, amount \in Amounts : AddCredits(org, amount)
    \/ \E org \in Orgs, amount \in Amounts : DebitCredits(org, amount)
    \/ WorkerStart("none")
    \/ WorkerStagesFail
    \/ WorkerStagesOk
    \/ WorkerExport
    \/ ProcessStatusUpdate("none")
    \/ DuplicateDelivery

Spec == Init /\ [][Next]_vars

\* The ledger's specification: every operation that writes the ledger, for
\* jobs without a webhook whose descriptor is queued, every event delivered once
NextLedger ==
    \/ \E org \in Orgs, quality \in Qualities, target_formats \in FormatChoices :
          create_job(org, quality, target_formats, FALSE, TRUE)
    \/ create_studio_job_from_preview(TRUE)
    \/ \E org \in Orgs, amount \in Amounts : AddCredits(org, amount)
    \/ \E org \in Orgs, amount \in Amounts : DebitCredits(org, amount)
    \/ WorkerStart("none")
    \/ WorkerStagesFail
    \/ WorkerStagesOk
    \/ WorkerExport
    \/ ProcessStatusUpdate("none")

SpecLedger == Init /\ [][NextLedger]_vars

\* the start of the specifications below: USDZ export disabled, and the
\* organization has bought 10 credits
InitFunded ==
    /\ Init
    /\ feature_usdz = FALSE
    /\ ledger = add_credits(<<>>, "org1", 1000, "purchase")

\* The work queue's specification: jobs whose creation queues their
\* descriptor on the list, the enqueue_job helper called with a positive
\* priority for the first job, and the callers of dequeue_job
NextQueue ==
    \/ create_studio_job_from_preview(TRUE)
    \/ \E priority \in Priorities \ {0}, ok \in BOOLEAN : EnqueueJob(1, priority, ok)
    \/ \E c \in Callers : DequeueRead(c)
    \/ \E c \in Callers, ok \in BOOLEAN : DequeueRemove(c, ok)
    \/ \E c \in Callers, ok \in BOOLEAN : DequeuePop(c, ok)

SpecQueue == InitFunded /\ [][NextQueue]_vars

\* The relay's specification: jobs with and without a webhook, the worker, a
\* relay that can fail, and events for unknown jobs
StrayEvents ==
    {StatusEvent(UnknownJob, "running", Null, {}, 0),
     StatusEvent(UnknownJob, "completed", Null, {"glb"}, 3)}

NextRelay ==
    \/ \E org \in Orgs, webhook_url \in BOOLEAN :
          create_job(org, "fast", {"glb"}, webhook_url, TRUE)
    \/ WorkerStart("none")
    \/ WorkerStagesFail
    \/ WorkerStagesOk
    \/ WorkerExport
    \/ \E fault \in Faults : ProcessStatusUpdate(fault)
    \/ \E e \in StrayEvents : StrayEvent(e)

SpecRelay == InitFunded /\ [][NextRelay]_vars

\* The dispatcher's specification: a first job with a webhook URL and later
\* jobs without one, the worker, the relay, the dispatcher, and retry
\* commands that come due
JobSteps ==
    \/ \E org \in Orgs : create_job(org, "fast", {"glb"}, jobs = <<>>, TRUE)
    \/ WorkerStart("none")
    \/ WorkerStagesFail
    \/ WorkerStagesOk
    \/ WorkerExport
    \/ ProcessStatusUpdate("none")

NextWebhook ==
    \/ JobSteps
    \/ DeliverStart
    \/ \E r \in Responses : HttpResponse(r)
    \/ DeliverFinish
    \/ DispatcherCrash
    \/ RetryDue

SpecWebhook == InitFunded /\ [][NextWebhook]_vars

\* The dispatcher as the code runs it, against a subscriber that fails every
\* request: every process keeps taking its steps
NextUnreachable ==
    \/ JobSteps
    \/ DeliverStart
    \/ \E r \in Failing : HttpResponse(r)
    \/ DeliverFinish

SpecUnreachable ==
    /\ InitFunded
    /\ [][NextUnreachable]_vars
    /\ WF_vars(WorkerStart("none"))
    /\ WF_vars(WorkerStagesFail \/ WorkerStagesOk)
    /\ WF_vars(WorkerExport)
    /\ WF_vars(ProcessStatusUpdate("none"))
    /\ WF_vars(DeliverStart)
    /\ WF_vars(\E r \in Failing : HttpResponse(r))
    /\ WF_vars(DeliverFinish)

\* process_job stage by stage, every status report and the cleanup succeeding
NextPipeline ==
    \/ \E org \in Orgs, quality \in Qualities, target_formats \in FormatChoices :
          create_job(org, quality, target_formats, FALSE, TRUE)
    \/ WorkerStart("none")
    \/ WorkerStageOk
    \/ WorkerStageFail(TRUE, TRUE)
    \/ WorkerTrainOk(TRUE, TRUE, TRUE)
    \/ WorkerUpload
    \/ WorkerFinalize(TRUE, TRUE, TRUE)

SpecPipeline == Init /\ [][NextPipeline]_vars

\* process_job stage by stage with redis and the file system failing: any
\* status report may raise, the constructor and rmtree may fail
NextProcessJob ==
    \/ \E org \in Orgs, quality \in Qualities, target_formats \in FormatChoices :
          create_job(org, quality, target_formats, FALSE, TRUE)
    \/ \E fault \in StartFaults : WorkerStart(fault)
    \/ WorkerStageOk
    \/ \E failed_ok, rmtree_ok \in BOOLEAN : WorkerStageFail(failed_ok, rmtree_ok)
    \/ \E exporting_ok, failed_ok, rmtree_ok \in BOOLEAN :
          WorkerTrainOk(exporting_ok, failed_ok, rmtree_ok)
    \/ WorkerUpload
    \/ \E completed_ok, failed_ok, rmtree_ok \in BOOLEAN :
          WorkerFinalize(completed_ok, failed_ok, rmtree_ok)

SpecProcessJob == Init /\ [][NextProcessJob]_vars

\* cancel_job running beside POST /jobs, the worker and the relay
NextCancel ==
    \/ \E org \in Orgs, enqueue_ok \in BOOLEAN :
          create_job(org, "fast", {"glb"}, FALSE, enqueue_ok)
    \/ \E job_id \in JobIds : cancel_job_check(job_id)
    \/ cancel_job_commit
    \/ WorkerStart("none")
    \/ WorkerStagesFail
    \/ WorkerStagesOk
    \/ WorkerExport
    \/ ProcessStatusUpdate("none")

SpecCancel == InitFunded /\ [][NextCancel]_vars

\* job submissions through POST /jobs and the charges the relay applies
NextCharge ==
    \/ \E org \in Orgs, quality \in Qualities, target_formats \in FormatChoices :
          create_job(org, quality, target_formats, FALSE, TRUE)
    \/ WorkerStart("none")
    \/ WorkerStagesFail
    \/ WorkerStagesOk
    \/ WorkerExport
    \/ ProcessStatusUpdate("none")

SpecCharge == Init /\ [][NextCharge]_vars

\* the helper of queue.py beside the relay and the dispatcher: both put
\* commands on the webhook queue of a job with a webhook URL
HelperEvents ==
    {StatusEvent(job_id, status, Null, {}, 0) :
        job_id \in JobIds, status \in {"running", "failed"}}

NextHelper ==
    \/ JobSteps
    \/ \E e \in HelperEvents, db_ok, push_ok \in BOOLEAN : update_job_status(e, db_ok, push_ok)
    \/ DeliverStart
    \/ \E r \in Responses : HttpResponse(r)
    \/ DeliverFinish

SpecHelper == InitFunded /\ [][NextHelper]_vars

\* the FIFO structure alone: every descriptor is enqueued with priority 0 by
\* the enqueue_job helper and taken by callers of dequeue_job
NextFifo ==
    \/ \E org \in Orgs, quality \in Qualities :
          create_job(org, quality, {"glb"}, FALSE, FALSE)
    \/ \E job_id \in JobIds, ok \in BOOLEAN : EnqueueJob(job_id, 0, ok)
    \/ \E c \in Callers : DequeueRead(c)
    \/ \E c \in Callers, ok \in BOOLEAN : DequeuePop(c, ok)

SpecFifo == InitFunded /\ [][NextFifo]_vars

\* the worker as JobProcessor.run schedules it, beside the enqueue_job helper
\* filling both structures of the lane: the loop never ends, so a step of
\* the worker that can be taken is taken
NextLane ==
    \/ \E org \in Orgs, quality \in Qualities :
          create_job(org, quality, {"glb"}, FALSE, TRUE)
    \/ \E job_id \in JobIds, priority \in Priorities : EnqueueJob(job_id, priority, TRUE)
    \/ WorkerStart("none")
    \/ WorkerStagesFail
    \/ WorkerStagesOk
    \/ WorkerExport

SpecLane ==
    /\ InitFunded
    /\ [][NextLane]_vars
    /\ WF_vars(WorkerStart("none"))
    /\ WF_vars(WorkerStagesFail \/ WorkerStagesOk)
    /\ WF_vars(WorkerExport)

\* several relay processes beside submission and the worker
NextRelays ==
    \/ \E org \in Orgs, quality \in Qualities :
          create_job(org, quality, {"glb"}, FALSE, TRUE)
    \/ WorkerStart("none")
    \/ WorkerStagesFail
    \/ WorkerStagesOk
    \/ WorkerExport
    \/ \E r \in Relays : RelayPop(r)
    \/ \E r \in Relays : RelayApply(r, "none")

SpecRelays == InitFunded /\ [][NextRelays]_vars

\* ===================================================================== claims
\* a step of the relay: it takes the event at the right end of job_updates
RelayStep == job_updates # <<>> /\ job_updates' = RPop(job_updates)
Applied == RHead(job_updates)
Exists(job_id) == job_id \in 1..Len(jobs)
OrgOwned(job_id) == Exists(job_id) /\ jobs[job_id].org_id # NoOrg

\* the ledger rows of one reason that reference a job
JobRows(l, job_id, reason) ==
    SelectSeq(l, LAMBDA r: r.job_id = Some(job_id) /\ r.reason = reason)

\* the sum of an organization's deltas, entry by entry
RECURSIVE DeltaSum(_, _, _)
DeltaSum(l, org, i) ==
    IF i = 0 THEN 0
    ELSE DeltaSum(l, org, i - 1) + (IF l[i].org_id = org THEN l[i].delta ELSE 0)

IsPrefix(a, b) == Len(a) <= Len(b) /\ SubSeq(b, 1, Len(a)) = a

\* the transitions of queued -> running -> (exporting ->)? (completed|failed)
\* and queued|running -> canceled
Legal(from, to) ==
    \/ from = "queued" /\ to \in {"running", "canceled"}
    \/ from = "running" /\ to \in {"exporting", "completed", "failed", "canceled"}
    \/ from = "exporting" /\ to \in {"completed", "failed"}

\* C1: every change the relay makes to a job's status is a transition of the
\* state machine; an event asking for any other transition leaves the stored
\* status as it was.
C1_OnlyLegalTransitions ==
    [][RelayStep =>
         \A j \in 1..Len(jobs) :
            jobs'[j].status # jobs[j].status
               => Legal(jobs[j].status, jobs'[j].status)]_vars

\* C2: an org-owned job never has more than one job_charge entry in the
\* ledger, and has exactly one while its status is completed.
C2_ExactlyOneDebit ==
    \A j \in JobIds :
       OrgOwned(j) =>
          /\ Len(JobRows(ledger, j, "job_charge")) <= 1
          /\ jobs[j].status = "completed"
                => Len(JobRows(ledger, j, "job_charge")) = 1

\* C3: cost_credits is assigned only by a completed event that finds it null:
\* once it is non-null no event assigns it again.
C3_CostWrittenOnce ==
    [][\A j \in JobIds :
          cost_writes'[j] # cost_writes[j]
             => /\ RelayStep /\ Applied.job_id = j /\ Applied.status = "completed"
                /\ jobs[j].cost_credits = Null]_vars

\* C4: an event whose status is the terminal status the job already has
\* changes neither completed_at nor the job's JobOutput and UsageEvent rows.
C4_DuplicateTerminalNoEffect ==
    [][\A j \in 1..Len(jobs) :
          (/\ RelayStep
           /\ Applied.job_id = j
           /\ Applied.status \in Terminal
           /\ jobs[j].status = Applied.status)
             => /\ jobs'[j].completed_at = jobs[j].completed_at
                /\ job_outputs'[j] = job_outputs[j]
                /\ usage_events'[j] = usage_events[j]]_vars

\* C5: an org-owned job with an estimate never has more than one refund entry
\* in the ledger.
C5_AtMostOneRefund ==
    \A j \in JobIds :
       (OrgOwned(j) /\ jobs[j].estimate_credits # Null)
          => Len(JobRows(ledger, j, "refund")) <= 1

\* C6: a completed event applied to an org-owned job whose cost_credits is
\* null leaves cost_credits non-null and appends the ledger entry of minus
\* that amount referencing the job, with or without gpu_minutes in the event.
C6_CompletedIsBilled ==
    [][\A j \in 1..Len(jobs) :
          (/\ RelayStep
           /\ Applied.job_id = j
           /\ Applied.status = "completed"
           /\ OrgOwned(j)
           /\ jobs[j].cost_credits = Null)
             => /\ jobs'[j].cost_credits # Null
                /\ ledger' = Append(ledger,
                      LedgerEntry(jobs[j].org_id, -(jobs'[j].cost_credits[1]),
                                  "job_charge", Some(j)))]_vars

\* the ledger as it was when the job was submitted, and what was added since
LedgerAtSubmit(job_id) == SubSeq(ledger, 1, submit_len[job_id])
LedgerSince(job_id) == SubSeq(ledger, submit_len[job_id] + 1, Len(ledger))

\* C7: a job submitted through create_job with estimate e has failed, and
\* nothing but this job has touched the ledger since it was submitted: the
\* ledger has gained the +e refund and the organization's balance is what it
\* was before the submission.
C7_RefundRestoresBalance ==
    \A j \in JobIds :
       (/\ OrgOwned(j)
        /\ jobs[j].status = "failed"
        /\ Len(JobRows(ledger, j, "refund")) <= 1
        /\ \A i \in 1..Len(LedgerSince(j)) : LedgerSince(j)[i].job_id = Some(j))
          => /\ LedgerSince(j) =
                  <<LedgerEntry(jobs[j].org_id, jobs[j].estimate_credits[1],
                                "refund", Some(j))>>
             /\ get_balance(ledger, jobs[j].org_id)
                  = get_balance(LedgerAtSubmit(j), jobs[j].org_id)

\* a step of CreditsManager.debit_credits / add_credits
DebitStep == api_calls' = api_calls + 1 /\ api_result'.op = "debit_credits"
AddStep == api_calls' = api_calls + 1 /\ api_result'.op = "add_credits"

RefundStep ==
    /\ RelayStep
    /\ Exists(Applied.job_id)
    /\ Applied.status = "failed"
    /\ OrgOwned(Applied.job_id)
    /\ Truthy(jobs[Applied.job_id].estimate_credits)

\* the step appends one entry of delta +amount for org, and the balance rises
\* by amount
Credited(org, amount) ==
    /\ Len(ledger') = Len(ledger) + 1
    /\ IsPrefix(ledger, ledger')
    /\ ledger'[Len(ledger')].org_id = org
    /\ ledger'[Len(ledger')].delta = amount
    /\ get_balance(ledger', org) = get_balance(ledger, org) + amount

C10_LedgerAppendOnly ==
    /\ [][IsPrefix(ledger, ledger')]_vars
    /\ [](\A org \in Orgs : get_balance(ledger, org) = DeltaSum(ledger, org, Len(ledger)))

\* a purchase, then a job charge, then a direct call, all in one ledger
C10_Witness ==
    /\ Len(ledger) >= 3
    /\ ledger[1].reason = "purchase"
    /\ \E i \in 2..Len(ledger) : ledger[i].reason = "job_charge"

\* ------------------------------------------------------------ the work queue
\* a call of dequeue_job by c: its look at the priority set, its return from
\* the priority branch, and its return from the FIFO branch
ReadBy(c) == dequeuer[c].pc = "idle" /\ dequeuer'[c].pc # "idle"
PriorityReturn(c) == dequeuer[c].pc = "zrem" /\ dequeuer'[c].pc = "idle"
FifoReturn(c) == dequeuer[c].pc = "brpop" /\ dequeuer'[c].pc = "idle"

\* C11: when dequeue_job finds the priority set non-empty it returns a member
\* whose priority is the greatest in the set at that moment and leaves the
\* list as it is; it returns a descriptor of the list only when it found the
\* priority set empty.
C11_StrictPriority ==
    [][\A c \in Callers :
          /\ (ReadBy(c) /\ queue_priority # {})
                => /\ dequeuer'[c].pc = "zrem"
                   /\ dequeuer'[c].item[1] \in queue_priority
                   /\ \A y \in queue_priority :
                         y.priority <= dequeuer'[c].item[1].priority
          /\ (ReadBy(c) /\ queue_priority = {}) => dequeuer'[c].pc = "brpop"
          /\ PriorityReturn(c)
                => /\ queue_standard' = queue_standard
                   /\ received'[c] \subseteq received[c] \cup {dequeuer[c].item[1]}
          /\ received'[c] # received[c]
                => \/ PriorityReturn(c)
                   \/ FifoReturn(c) /\ received'[c] = received[c] \cup {RHead(queue_standard)}]_vars

\* a caller holds the descriptor of priority 5 while one of priority 1 and a
\* descriptor of the list are still pending
C11_Witness ==
    \E c \in Callers :
       /\ \E d \in received[c] : "priority" \in DOMAIN d /\ d.priority = 5
       /\ \E y \in queue_priority : y.priority = 1
       /\ queue_standard # <<>>

\* C12: no descriptor is returned to two callers of dequeue_job.
C12_EachDescriptorOnce ==
    \A c1 \in Callers, c2 \in Callers :
       c1 # c2 => received[c1] \cap received[c2] = {}

\* ---------------------------------------------------- the webhook dispatcher
Events == 1..Len(webhook_events)

\* a command for the event waits in one of the lists, or the dispatcher is
\* delivering the event
Scheduled(e) ==
    \/ \E i \in 1..Len(queue_webhooks) : queue_webhooks[i] = e
    \/ \E i \in 1..Len(webhook_retries) : webhook_retries[i].event_id = e
    \/ dispatcher.pc # "idle" /\ dispatcher.event_id = e

\* the dispatcher has handled the response to its request for the event
Handled(e) ==
    dispatcher.pc = "responded" /\ dispatcher.event_id = e /\ dispatcher'.pc = "idle"

\* C13: for every WebhookEvent the stored attempts is at most 3 and at most
\* three HTTP requests have been issued; once the third attempt has failed
\* (attempts is 3, delivered_at is null) no command for the event is queued
\* or being delivered, and delivered_at stays null.
C13_AtMostThreeAttempts ==
    /\ [](\A e \in Events :
            /\ webhook_events[e].attempts <= 3
            /\ Posts(e) <= 3
            /\ (webhook_events[e].attempts = 3 /\ webhook_events[e].delivered_at = Null)
                  => ~Scheduled(e))
    /\ [][\A e \in Events :
            (webhook_events[e].attempts = 3 /\ webhook_events[e].delivered_at = Null)
               => webhook_events'[e].delivered_at = Null]_vars

\* three requests were issued for an event and all three failed
C13_Witness ==
    \E e \in Events :
       /\ webhook_events[e].attempts = 3
       /\ webhook_events[e].delivered_at = Null
       /\ Posts(e) = 3

\* C14: against a subscriber that fails every request, the first WebhookEvent
\* eventually has attempts = 3 with delivered_at null.
C14_RetriesAttempted ==
    (Len(webhook_events) >= 1)
       ~> (/\ Len(webhook_events) >= 1
           /\ webhook_events[1].attempts = 3
           /\ webhook_events[1].delivered_at = Null)

\* C15: a failed delivery that leaves attempts at 1 queues one retry 60 s
\* after the failure, one that leaves it at 2 queues one retry 120 s after
\* the failure, and one that leaves it at 3 or more queues nothing.
C15_RetryDelay ==
    [][\A e \in Events :
          (Handled(e) /\ webhook_events'[e].delivered_at = Null)
             => LET n == webhook_events'[e].attempts
                IN /\ n = 1 => webhook_retries' =
                                 LPush(webhook_retries, [event_id |-> e, delay |-> 60])
                   /\ n = 2 => webhook_retries' =
                                 LPush(webhook_retries, [event_id |-> e, delay |-> 120])
                   /\ n >= 3 => webhook_retries' = webhook_retries]_vars

\* a retry is scheduled 120 s after an event's second failure
C15_Witness ==
    \E i \in 1..Len(webhook_retries) :
       /\ webhook_retries[i].delay = 120
       /\ webhook_events[webhook_retries[i].event_id].attempts = 2

\* C16: when the response has a status code in 200..299 the dispatcher sets
\* delivered_at on the WebhookEvent and queues no retry.
C16_Any2xxIsSuccess ==
    [][\A e \in Events :
          (/\ Handled(e)
           /\ dispatcher.response[1].kind = "http"
           /\ dispatcher.response[1].status_code \in 200..299)
             => /\ webhook_events'[e].delivered_at # Null
                /\ webhook_retries' = webhook_retries]_vars

\* C17: while the request of an attempt is out or answered, the stored
\* attempts of the WebhookEvent counts every request issued for it.
C17_AttemptsStoredBeforeRequest ==
    \A e \in Events :
       (dispatcher.pc \in {"posting", "responded"} /\ dispatcher.event_id = e)
          => webhook_events[e].attempts >= Posts(e)

\* ------------------------------------------------------------------ the relay
\* an iteration of the relay: it has taken the event at the right end of
\* job_updates and printed its line
Iteration == relay_log'.n # relay_log.n

\* C18: an iteration of the relay that fails while applying the event of a
\* stored job leaves the event on the status-event list.
C18_FailedEventReturned ==
    [][(Iteration /\ relay_log'.line = "failed" /\ Exists(Applied.job_id))
          => /\ Len(job_updates') = Len(job_updates)
             /\ \E i \in 1..Len(job_updates') : job_updates'[i] = Applied]_vars

\* C19 as stated: an iteration in which any step fails, the webhook step
\* included, leaves the jobs, JobOutput, UsageEvent and ledger rows as they
\* were.
C19_FailureLeavesNothing ==
    [][(Iteration /\ relay_log'.line \in {"failed", "webhook_failed"})
          => UNCHANGED <<jobs, job_outputs, usage_events, ledger>>]_vars

\* C19: an iteration that fails before or at the commit of the event's
\* transaction leaves the jobs, JobOutput, UsageEvent, ledger and
\* WebhookEvent rows as they were and queues no webhook command.
C19_RollbackLeavesNothing ==
    [][(Iteration /\ relay_log'.line = "failed")
          => UNCHANGED <<jobs, job_outputs, usage_events, ledger, webhook_events,
                         queue_webhooks, cost_writes>>]_vars

\* the worker's last event for a job was taken by an iteration that failed:
\* the job is still exporting and nothing is left to apply
C19_Witness ==
    /\ relay_log.line = "failed"
    /\ Exists(relay_log.job_id)
    /\ jobs[relay_log.job_id].status = "exporting"
    /\ worker = Idle
    /\ job_updates = <<>>

\* C20: an iteration whose event names a job that is not stored changes no
\* job, JobOutput, UsageEvent, ledger or WebhookEvent row, queues no webhook
\* command, and leaves the status-event list without the event.
C20_UnknownJobDiscarded ==
    [][(Iteration /\ ~Exists(Applied.job_id))
          => /\ UNCHANGED <<jobs, job_outputs, usage_events, ledger,
                            webhook_events, queue_webhooks>>
             /\ job_updates' = RPop(job_updates)]_vars

\* the relay has met an event for an unknown job while a job is stored
C20_Witness ==
    /\ relay_log.line = "not_found"
    /\ relay_log.job_id = UnknownJob
    /\ jobs # <<>>

Finished == worker.pc # "idle" /\ worker'.pc = "idle"

\* the event this step has put on the status-event list
Emitted == job_updates'[1]

\* this step has put exactly one event on the status-event list
EmitsOne == job_updates' # <<>> /\ job_updates' = LPush(job_updates, Emitted)

StagePassed ==
    \/ worker.pc = "train" /\ worker'.pc = "export"
    \/ worker.pc \in StagePcs \ {"train"} /\ worker'.pc = NextStage(worker.pc)

C23_OneRowPerUploadedFormat ==
    \A j \in 1..Len(jobs) :
        jobs[j].status = "completed"
            => \A f \in Formats :
                  /\ job_outputs[j][f] <= 1
                  /\ job_outputs[j][f] = 1 => f \in jobs[j].target_formats

\* ------------------------------------------------------------------ gpu time
\* C26: when process_job ends after training has run and produced a gpu
\* reading, the terminal event it emits, completed or failed, carries that
\* reading as gpu_minutes.
C26_TerminalEventCarriesGpuMinutes ==
    [][(worker.pc = "uploaded" /\ worker.gpu_minutes > 0 /\ Finished)
          => /\ EmitsOne
             /\ Emitted.status \in {"completed", "failed"}
             /\ "gpu_minutes" \in Emitted.keys
             /\ Emitted.gpu_minutes = worker.gpu_minutes]_vars

\* ------------------------------------------------- leaving process_job
\* C25: whenever the worker is outside process_job, no scratch directory of a
\* job exists: every way out of process_job has removed the directory that
\* was made for the job.
C25_ScratchRemovedOnExit ==
    worker.pc = "idle" => scratch = {}

\* process_job is left in the step that entered it: an exception was raised
\* before the try statement
LeftAtStart ==
    /\ worker.pc = "idle"
    /\ worker'.pc = "idle"
    /\ Len(queue_standard') < Len(queue_standard)

\* C30: every call of process_job returns True or False, never raises, and
\* the step in which it is left emits exactly one event, which is completed
\* or failed.
C30_OneTerminalEventAndReturn ==
    [][(Finished \/ LeftAtStart)
          => /\ worker_exit' \in {"true", "false"}
             /\ EmitsOne
             /\ Emitted.status \in {"completed", "failed"}]_vars

\* ------------------------------------------------------------- cancel_job
\* C27: a job's status becomes canceled only in a step in which its status
\* was queued or running until then, whatever the relay does beside
\* cancel_job.
C27_CanceledOnlyFromQueuedOrRunning ==
    [][\A j \in 1..Len(jobs) :
          (jobs'[j].status = "canceled" /\ jobs[j].status # "canceled")
             => jobs[j].status \in {"queued", "running"}]_vars

\* ------------------------------------------------------- queued jobs
\* the descriptor of job j is pending on the work queue
Pending(j) == \E i \in 1..Len(queue_standard) : queue_standard[i].job_id = j

\* job j was handed to a worker and the relay has still to apply its events
Handed(j) ==
    \/ worker.job_id = j
    \/ \E i \in 1..Len(job_updates) : job_updates[i].job_id = j

\* C28: every stored job in status queued has a descriptor pending on the
\* work queue or was handed to a worker.
C28_QueuedJobHasDescriptor ==
    \A j \in 1..Len(jobs) :
        jobs[j].status = "queued" => Pending(j) \/ Handed(j)

\* C29: JobOutput rows of a job appear only in a step of the relay that
\* applies a completed event of that job and leaves the job completed, so a
\* job with a JobOutput row has reached the status completed.
C29_OutputsOnlyWithCompleted ==
    [][\A j \in JobIds :
          job_outputs'[j] # job_outputs[j]
             => /\ Exists(j)
                /\ job_updates # <<>>
                /\ Applied.job_id = j
                /\ Applied.status = "completed"
                /\ jobs'[j].status = "completed"]_vars

\* the relay has applied the completed event of a job: the job is completed
\* and has its glb row
C29_Witness ==
    /\ relay_log.line = "updated"
    /\ Exists(relay_log.job_id)
    /\ jobs[relay_log.job_id].status = "completed"
    /\ job_outputs[relay_log.job_id]["glb"] = 1

\* ----------------------------------------------------------- cost and estimate
\* C35: the cost_credits the relay has written for a job of an organization
\* equals the estimate_credits the job got when it was created.
C35_CostEqualsEstimate ==
    \A j \in 1..Len(jobs) :
        (OrgOwned(j) /\ jobs[j].cost_credits # Null)
            => jobs[j].cost_credits = jobs[j].estimate_credits

\* C34: whatever jobs are submitted through create_job and charged by the
\* relay, the balance of every organization stays at or above zero.
C34_BalanceNeverNegative ==
    \A org \in Orgs : get_balance(ledger, org) >= 0

\* ------------------------------------------------------------- timestamps
\* C36: a job whose status is completed, failed or canceled has a
\* completed_at, and a job whose status is queued has neither a started_at
\* nor a completed_at.
C36_TimestampsMatchStatus ==
    \A j \in 1..Len(jobs) :
        /\ jobs[j].status \in Terminal => jobs[j].completed_at # Null
        /\ jobs[j].status = "queued"
              => jobs[j].started_at = Null /\ jobs[j].completed_at = Null

\* ------------------------------------------------------------ cancellation
\* the last cancel_job call has canceled job j while its status was queued
CanceledWhileQueued(j) ==
    /\ canceler.pc = "canceled"
    /\ canceler.job_id = j
    /\ canceler.replaced = "queued"

\* C37: a job that cancel_job has canceled while its status was queued has
\* no cost_credits and no job_charge entry in the ledger, whatever events
\* have been applied since.
C37_CanceledQueuedJobNotCharged ==
    \A j \in 1..Len(jobs) :
        CanceledWhileQueued(j)
            => /\ jobs[j].cost_credits = Null
               /\ JobRows(ledger, j, "job_charge") = <<>>

\* --------------------------------------------------------- order of events
\* the events of job j on the status-event list, oldest first
Reported(j) ==
    LET n == Len(job_updates)
    IN SelectSeq([i \in 1..n |-> job_updates[n + 1 - i]], LAMBDA e : e.job_id = j)

\* C38: with no relay taking events away, the events of a job's process_job
\* run are in order on the status-event list: the first is running, an
\* exporting event comes right after it, a completed or failed event is the
\* last one; and exporting is emitted only by the step in which train_model,
\* the last of stages 1 to 4, has succeeded.
C38_EventsInOrder ==
    /\ [](\A j \in 1..Len(jobs) :
            LET es == Reported(j)
            IN /\ es # <<>> => es[1].status = "running"
               /\ \A i \in 1..Len(es) :
                     /\ es[i].status = "running" => i = 1
                     /\ es[i].status = "exporting" => i = 2
                     /\ es[i].status \in {"completed", "failed"} => i = Len(es))
    /\ [][(job_updates' # job_updates /\ Emitted.status = "exporting")
             => worker.pc = "train" /\ worker'.pc = "export"]_vars

\* a run has emitted running, exporting and completed, in this order
C38_Witness ==
    /\ Len(job_updates) = 3
    /\ job_updates[3].status = "running"
    /\ job_updates[2].status = "exporting"
    /\ job_updates[1].status = "completed"
    /\ worker.pc = "idle"

\* ---------------------------------------------------------- webhook commands
\* C39: every command on the webhook queue names a stored WebhookEvent row:
\* the row was committed, with its id, before the command was pushed.
C39_CommandNamesStoredEvent ==
    \A i \in 1..Len(queue_webhooks) : queue_webhooks[i] \in 1..Len(webhook_events)

\* ------------------------------------------------------------ the FIFO order
\* C40: a descriptor that dequeue_job returns from the FIFO structure was
\* enqueued before every descriptor still pending there, and is pending no
\* longer: no descriptor is dequeued before one enqueued earlier.
C40_FifoOrder ==
    [][\A c \in Callers :
          \A d \in received'[c] \ received[c] :
             /\ FifoReturn(c)
             /\ Len(queue_standard') = Len(queue_standard) - 1
             /\ \A i \in 1..Len(queue_standard') :
                   queue_standard'[i].queued_at > d.queued_at]_vars

\* a caller holds the descriptor enqueued first while the one enqueued
\* second is still pending
C40_Witness ==
    /\ queue_standard # <<>>
    /\ queue_standard[1].queued_at = 2
    /\ \E c \in Callers : \E d \in received[c] : d.queued_at = 1

\* ------------------------------------------------------------- the lane
\* C33: descriptors pending on the lane, in the FIFO structure or in the
\* priority structure, are eventually all taken by the worker.
C33_EveryDescriptorReceived ==
    (queue_standard # <<>> \/ queue_priority # {})
        ~> (queue_standard = <<>> /\ queue_priority = {})

\* ------------------------------------------------ webhook failures
\* C32: an iteration of the relay whose webhook step fails (the WebhookEvent
\* row or the push of the command) still ends normally with the event taken
\* off the list, and leaves committed what the event brings: the job's new
\* status, its JobOutput rows, its UsageEvent row and its ledger entries.
C32_WebhookFailureKeepsTransition ==
    [][(Iteration /\ relay_log'.line = "webhook_failed")
          => LET e == Applied
                 j == e.job_id
             IN /\ job_updates' = RPop(job_updates)
                /\ queue_webhooks' = queue_webhooks
                /\ jobs'[j].status = e.status
                /\ jobs' = [jobs EXCEPT ![j] = ApplyCost(ApplyStatus(jobs[j], e), e)]
                /\ \A f \in Formats :
                      job_outputs'[j][f] =
                         IF e.status = "completed" /\ f \in e.outputs
                         THEN job_outputs[j][f] + 1 ELSE job_outputs[j][f]
                /\ usage_events'[j] =
                      IF "gpu_minutes" \in e.keys THEN usage_events[j] + 1
                      ELSE usage_events[j]
                /\ ledger' = ApplyBilling(ledger, j, jobs'[j], e)
                /\ IsPrefix(ledger, ledger')]_vars

\* the webhook step failed for the completed event of an organization's job:
\* the job is completed, has its glb row and its charge, and no command for
\* the completed status is queued
C32_Witness ==
    /\ relay_log.line = "webhook_failed"
    /\ Exists(relay_log.job_id)
    /\ jobs[relay_log.job_id].status = "completed"
    /\ job_outputs[relay_log.job_id]["glb"] = 1
    /\ JobRows(ledger, relay_log.job_id, "job_charge") # <<>>
    /\ \A i \in 1..Len(queue_webhooks) :
          webhook_events[queue_webhooks[i]].status # "completed"

\* ------------------------------------------------ several relay processes
\* the place of a status in the order process_job emits a job's events
Rank(status) ==
    CASE status = "running" -> 1
      [] status = "exporting" -> 2
      [] OTHER -> 3

\* relay process r applies the event it holds in this step
Applies(r) == relays[r] # Null /\ relays'[r] = Null

\* C31: with several relay processes consuming the status-event list, a
\* process applies an event of a job only when no other process still holds
\* an event the worker emitted earlier for the same job.
C31_AppliedInEmissionOrder ==
    [][\A r \in Relays :
          Applies(r)
             => \A q \in Relays \ {r} :
                   (relays[q] # Null /\ relays[q][1].job_id = relays[r][1].job_id)
                      => Rank(relays[q][1].status) > Rank(relays[r][1].status)]_vars

====
